---- MODULE Spec2Model ----
(***************************************************************************)
(* A model of the nghttpx worker process (src/src/shrpx_worker_process.cc):*)
(* the IPC reader, the graceful-shutdown logic, the session ticket key     *)
(* rotation timer and the memcached ticket key fetch callback.             *)
(*                                                                         *)
(* Every callback of the main event loop runs to completion on the loop    *)
(* thread, so each callback is one action.  The methods of                 *)
(* ConnectionHandler that the callbacks call are defined outside the       *)
(* modelled file; they are modelled from the design document and are       *)
(* marked so where they are defined.                                       *)
(***************************************************************************)
EXTENDS Integers, Sequences, FiniteSets, TLC

(***************************************************************************)
(* Bounds of the model.                                                    *)
(***************************************************************************)
MaxWorkers == 2
MaxSessionHours == 3
MaxIpcBytes == 3
MaxConn == 2
MaxTicks == 4
MaxBlobs == 2
\* reads of one callback that a signal interrupts
MaxEintr == 2
\* files named by tls_ticket_key_files
MaxKeyFiles == 2

(***************************************************************************)
(* IPC opcodes (shrpx_process.h; values as given by the design document).  *)
(***************************************************************************)
SHRPX_IPC_GRACEFUL_SHUTDOWN == 1
SHRPX_IPC_REOPEN_LOG == 2

\* std::array<uint8_t, 1024> buf in ipc_readcb
IpcBufSize == 1024

\* the bytes the parent may write: the two opcodes and one that is neither
IpcBytes == {0, SHRPX_IPC_GRACEFUL_SHUTDOWN, SHRPX_IPC_REOPEN_LOG}
Acceptors == {"acceptor", "acceptor6"}

Min(a, b) == IF a < b THEN a ELSE b

VARIABLES
  wpconf,            \* WorkerProcessConfig: server_fd, server_fd6
  config,            \* get_config(); ticket_key_source is the timer callback
                     \* that worker_process_event_loop armed
  pc,                \* worker_process_event_loop: "start" .. "ev_run" before
                     \* the loop, "loop" inside ev_run; "returned": it
                     \* returned -1; "exited": exit(); "crashed"
  graceful_shutdown_, \* ConnectionHandler::graceful_shutdown_
  acceptor,          \* per acceptor: "none" | "enabled" | "disabled"
  backlog,           \* connections pending in the kernel accept queues
  num_connections,   \* per worker: WorkerStat::num_connections
  loop_broken,       \* ev_break() has been called on the main loop
  ipc_pipe,          \* bytes written by the parent and not yet read
  ipc_open,          \* the parent still holds the write end
  ipc_read,          \* history: every byte read() has returned so far
  events,            \* history: lifecycle functions invoked, in order
  calls,             \* history: how often each effect has been performed
  last_cb,           \* history: the most recent callback: ipc_readcb with the
                     \* result of its read(), or another one
  ticket_keys,       \* ConnectionHandler::ticket_keys_ (a shared_ptr)
  worker_ticket_keys, \* per worker: Worker::ticket_keys_
  keygen,            \* number of keys RAND_bytes has produced
  ticks,             \* number of timer callbacks run (bounded by MaxTicks)
  fetch,             \* history: events recorded by the memcached fetcher
  publishing,        \* set_ticket_keys_to_worker under way: the worker it
                     \* has come to and the set in use before
  observed,          \* per worker: the set its last handshake worked with
  pending            \* once ev_break has been called: the watchers of the
                     \* main loop whose callback ev_run may still invoke
                     \* before it returns

lifeVars == <<graceful_shutdown_, acceptor, backlog, num_connections,
              loop_broken, ipc_pipe, ipc_open, ipc_read, events, calls>>
keyVars == <<ticket_keys, worker_ticket_keys, keygen, ticks, fetch>>
auxVars == <<wpconf, publishing, observed>>
vars == <<config, pc, lifeVars, last_cb, keyVars, auxVars, pending>>

Workers == 1..config.num_worker

(***************************************************************************)
(* The part of the ConnectionHandler that graceful_shutdown and reopen_log *)
(* act on, as one record, so that ipc_readcb can thread it through the     *)
(* bytes of one read.                                                      *)
(***************************************************************************)
Handler ==
  [gs |-> graceful_shutdown_, acc |-> acceptor, backlog |-> backlog,
   nconn |-> num_connections, brk |-> loop_broken, ev |-> events,
   calls |-> calls]

\* the calls made on the handler: how often each was made, and their order
Note(c, f) == [c EXCEPT !.order = Append(@, f)]
Bump(c, f) == [c EXCEPT ![f] = @ + 1, !.order = Append(@, f)]

\* ConnectionHandler::disable_acceptor: every acceptor that exists is taken
\* out of the readiness set; its descriptor stays open.
disable_acceptor(h) ==
  [h EXCEPT !.acc = [a \in Acceptors |->
                       IF h.acc[a] = "none" THEN "none" ELSE "disabled"],
            !.calls = Bump(@, "disable_acceptor")]

\* ConnectionHandler::accept_pending_connection: one last non-blocking accept
\* burst; target[i] is the worker the i-th pending connection is handed to.
RECURSIVE HandOff(_, _, _)
HandOff(nconn, target, i) ==
  IF i = 0 THEN nconn
  ELSE HandOff([nconn EXCEPT ![target[i]] = @ + 1], target, i - 1)

accept_pending_connection(h, target) ==
  [h EXCEPT !.nconn = HandOff(h.nconn, target, h.backlog),
            !.backlog = 0,
            !.calls = Bump(@, "accept_pending_connection")]

\* ConnectionHandler::graceful_shutdown_worker: the drain message to the
\* workers.
graceful_shutdown_worker(h) ==
  [h EXCEPT !.calls = Bump(@, "graceful_shutdown_worker")]

ev_break(h) == [h EXCEPT !.brk = TRUE]

(***************************************************************************)
(* graceful_shutdown (lines 87-115).                                       *)
(***************************************************************************)
\* mutant: the connection count is taken before the backlog is drained
graceful_shutdown_countfirst(h, target) ==
  LET h0 == IF config.num_worker = 1
            THEN [h EXCEPT !.calls = Note(@, "get_num_connections")]
            ELSE h
      h1 == [h0 EXCEPT !.gs = TRUE, !.calls = Note(@, "set_graceful_shutdown")]
      h2 == disable_acceptor(h1)
      h3 == accept_pending_connection(h2, target)
      h4 == graceful_shutdown_worker(h3)
  IN IF config.num_worker = 1 /\ h.nconn[1] > 0
     THEN h4
     ELSE ev_break(h4)

graceful_shutdown_body(h, target) ==
  LET h1 == [h EXCEPT !.gs = TRUE, !.calls = Note(@, "set_graceful_shutdown")]
      h2 == disable_acceptor(h1)
      h3 == accept_pending_connection(h2, target)
      h4 == graceful_shutdown_worker(h3)
      \* && reads num_connections only when num_worker == 1
      h5 == IF config.num_worker = 1
            THEN [h4 EXCEPT !.calls = Note(@, "get_num_connections")]
            ELSE h4
  IN IF config.num_worker = 1 /\ h5.nconn[1] > 0
     THEN h5
     ELSE ev_break(h5)

\* mutant: the early return on a repeated command is missing
graceful_shutdown_norepeatguard(h, target) ==
  graceful_shutdown_body([h EXCEPT !.ev = Append(@, "graceful_shutdown")],
                         target)

\* mutant: the acceptors are left enabled
graceful_shutdown_nodisable(h, target) ==
  LET e == [h EXCEPT !.ev = Append(@, "graceful_shutdown")]
  IN IF e.gs THEN e
     ELSE LET h1 == [e EXCEPT !.gs = TRUE]
              h3 == accept_pending_connection(h1, target)
              h4 == graceful_shutdown_worker(h3)
          IN IF config.num_worker = 1 /\ h4.nconn[1] > 0
             THEN h4 ELSE ev_break(h4)

\* mutant: the loop is broken whatever the single worker still serves
graceful_shutdown_alwaysbreak(h, target) ==
  LET e == [h EXCEPT !.ev = Append(@, "graceful_shutdown")]
  IN IF e.gs THEN e
     ELSE ev_break(graceful_shutdown_worker(
            accept_pending_connection(
              disable_acceptor([e EXCEPT !.gs = TRUE]), target)))

graceful_shutdown(h, target) ==
  LET e == [h EXCEPT !.ev = Append(@, "graceful_shutdown")]
  IN IF e.gs THEN e ELSE graceful_shutdown_body(e, target)

(***************************************************************************)
(* reopen_log (lines 118-128).                                             *)
(***************************************************************************)
reopen_log(h) ==
  LET h1 == [h EXCEPT !.ev = Append(@, "reopen_log"),
                      !.calls = Bump(@, "reopen_log_files")]
  IN IF config.num_worker > 1
     THEN [h1 EXCEPT !.calls = Bump(@, "worker_reopen_log_files")]
     ELSE h1

(***************************************************************************)
(* The for loop of ipc_readcb (lines 150-159) over the bytes of one read.  *)
(***************************************************************************)
\* mutant: the switch has no break, a shutdown byte falls through to reopen
ipc_dispatch_fallthrough(h, b, target) ==
  IF b = SHRPX_IPC_GRACEFUL_SHUTDOWN THEN reopen_log(graceful_shutdown(h, target))
  ELSE IF b = SHRPX_IPC_REOPEN_LOG THEN reopen_log(h)
  ELSE h

ipc_dispatch(h, b, target) ==
  IF b = SHRPX_IPC_GRACEFUL_SHUTDOWN THEN graceful_shutdown(h, target)
  ELSE IF b = SHRPX_IPC_REOPEN_LOG THEN reopen_log(h)
  ELSE h

\* mutant: the loop over the bytes ends once the event loop is broken
RECURSIVE ipc_process_untilbreak(_, _, _)
ipc_process_untilbreak(h, bytes, target) ==
  IF bytes = <<>> \/ h.brk THEN h
  ELSE ipc_process_untilbreak(ipc_dispatch(h, Head(bytes), target),
                              Tail(bytes), target)

RECURSIVE ipc_process(_, _, _)
ipc_process(h, bytes, target) ==
  IF bytes = <<>> THEN h
  ELSE ipc_process(ipc_dispatch(h, Head(bytes), target), Tail(bytes), target)

(***************************************************************************)
(* Ticket keys.  A shared_ptr<TicketKeys> is either null or points to a    *)
(* vector of keys; present = FALSE is the null pointer.                    *)
(***************************************************************************)
NullTicketKeys == [present |-> FALSE, keys |-> <<>>]
MakeTicketKeys(ks) == [present |-> TRUE, keys |-> ks]

Fill(n, b) == [i \in 1..n |-> b]

\* EVP_MD_size(EVP_sha256())
Sha256Size == 32
\* sizes of TicketKey::data.name, .enc_key and .hmac_key
NameSize == 16
EncKeySize == 32
HmacKeySize == 32

\* RAND_bytes over the whole of ticket_key.data: the serial-th draw of the
\* generator, written over name, enc_key and hmac_key.
RandData(serial) ==
  [name |-> Fill(NameSize, serial), enc_key |-> Fill(EncKeySize, serial),
   hmac_key |-> Fill(HmacKeySize, serial)]

\* what RAND_bytes returns: 1, the bytes were written; 0, it failed; -1, the
\* RAND method in use does not support it
RandResults == {1, 0, -1}

\* TicketKey::data of an element that vector::resize has value-initialised
\* and nothing has written since
ZeroData ==
  [name |-> Fill(NameSize, 0), enc_key |-> Fill(EncKeySize, 0),
   hmac_key |-> Fill(HmacKeySize, 0)]

(***************************************************************************)
(* generate_ticket_key (lines 164-184) on a value-initialised key.  rand   *)
(* is what RAND_bytes returns and serial the number of the draw; rv is the *)
(* value returned, -1 only where RAND_bytes returned 0 (line 179), and key *)
(* the key as the call leaves it.                                          *)
(***************************************************************************)
generate_ticket_key(rand, serial) ==
  [rv |-> IF rand = 0 THEN -1 ELSE 0,
   key |-> [cipher |-> config.tls_ticket_key_cipher,
            hmac_keylen |-> Sha256Size,
            data |-> IF rand = 1 THEN RandData(serial) ELSE ZeroData]]

\* static_cast<size_t>(duration_cast<hours>(tls_session_timeout).count());
\* the timeout is held in minutes here.
max_tickets == config.tls_session_timeout \div 60

\* ConnectionHandler::set_ticket_keys followed by set_ticket_keys_to_worker
publish_ticket_keys(k, tk) ==
  [k EXCEPT !.tk = tk, !.wtk = [w \in DOMAIN k.wtk |-> tk]]

KeyState ==
  [tk |-> ticket_keys, wtk |-> worker_ticket_keys, keygen |-> keygen,
   crashed |-> FALSE]

(***************************************************************************)
(* renew_ticket_key_cb (lines 188-245).  rand: what RAND_bytes returns.    *)
(* Where the new vector has size 0 the code's behaviour is undefined:      *)
(* copy_n is given the count size() - 1 = SIZE_MAX and keys[0] indexes an  *)
(* empty vector.  ub is what the build makes of it: "abort", the process   *)
(* dies there (the stray copy or store faults, or an assert fires), or     *)
(* "continue", the stray accesses go unnoticed (and asserts are compiled   *)
(* out) and the callback runs on with its empty vector.                    *)
(***************************************************************************)
new_keys_size(old_keys) == Min(max_tickets, Len(old_keys) + 1)

\* the new vector: position 0 generated, old[0..n-2] copied behind it
renew_keys(old_keys, fresh, n) ==
  <<fresh>> \o SubSeq(old_keys, 1, n - 1)

\* mutant: a failed generation leaves the published set in place
renew_failed_keep(k, partial) == k

\* lines 223-230: generate_ticket_key failed; partial is the vector built so
\* far, whose position 0 holds no key
renew_failed(k, partial) == publish_ticket_keys(k, NullTicketKeys)

renew_ticket_key_cb(k, rand, ub) ==
  LET old == k.tk
      g == generate_ticket_key(rand, k.keygen + 1)
      n == IF old.present THEN new_keys_size(old.keys) ELSE 1
      built(key0) == IF n = 0 THEN <<>>
                     ELSE IF old.present THEN renew_keys(old.keys, key0, n)
                     ELSE <<key0>>
  IN IF old.present /\ old.keys = <<>> /\ ub = "abort"
     THEN [k EXCEPT !.crashed = TRUE]          \* assert(!old_keys.empty())
     ELSE IF n = 0 /\ ub = "abort"
     THEN [k EXCEPT !.crashed = TRUE]
     ELSE IF g.rv # 0
     THEN renew_failed(k, built(g.key))
     ELSE publish_ticket_keys(
            [k EXCEPT !.keygen = IF rand = 1 THEN @ + 1 ELSE @],
            MakeTicketKeys(built(g.key)))

(***************************************************************************)
(* The response callback of memcached_get_ticket_key_cb (lines 257-347).   *)
(* value is the payload as a sequence of bytes; p and end are positions in *)
(* it (p = 1 is value.data(), end = Len(value) + 1).                       *)
(***************************************************************************)
MEMCACHED_ERR_NO_ERROR == "MEMCACHED_ERR_NO_ERROR"
MEMCACHED_ERR_EXT_NETWORK_ERROR == "MEMCACHED_ERR_EXT_NETWORK_ERROR"
MEMCACHED_ERR_OTHER == "MEMCACHED_ERR_OTHER"

\* util::get_uint32 and util::get_uint16: big-endian
get_uint32(v, p) == v[p] * 16777216 + v[p + 1] * 65536 + v[p + 2] * 256 + v[p + 3]
get_uint16(v, p) == v[p] * 256 + v[p + 1]

\* lines 295-305: expectedlen, enc_keylen, hmac_keylen; 0 for a cipher the
\* callback does not know
expectedlen ==
  IF config.tls_ticket_key_cipher = "aes-128-cbc" THEN 48
  ELSE IF config.tls_ticket_key_cipher = "aes-256-cbc" THEN 80 ELSE 0
enc_keylen ==
  IF config.tls_ticket_key_cipher = "aes-128-cbc" THEN 16
  ELSE IF config.tls_ticket_key_cipher = "aes-256-cbc" THEN 32 ELSE 0
hmac_keylen ==
  IF config.tls_ticket_key_cipher = "aes-128-cbc" THEN 16
  ELSE IF config.tls_ticket_key_cipher = "aes-256-cbc" THEN 32 ELSE 0

\* mutant: the hmac key is copied from where the encryption key starts
parse_ticket_key_samesrc(v, p) ==
  [cipher |-> config.tls_ticket_key_cipher, hmac_keylen |-> hmac_keylen,
   data |->
     [name |-> SubSeq(v, p, p + NameSize - 1),
      enc_key |-> SubSeq(v, p + NameSize, p + NameSize + enc_keylen - 1)
                    \o Fill(EncKeySize - enc_keylen, 0),
      hmac_key |-> SubSeq(v, p + NameSize, p + NameSize + hmac_keylen - 1)
                     \o Fill(HmacKeySize - hmac_keylen, 0)]]

\* lines 329-341: a value-initialised TicketKey with the three fields copied
\* from the payload at p
parse_ticket_key(v, p) ==
  [cipher |-> config.tls_ticket_key_cipher, hmac_keylen |-> hmac_keylen,
   data |->
     [name |-> SubSeq(v, p, p + NameSize - 1),
      enc_key |-> SubSeq(v, p + NameSize, p + NameSize + enc_keylen - 1)
                    \o Fill(EncKeySize - enc_keylen, 0),
      hmac_key |-> SubSeq(v, p + NameSize + enc_keylen,
                          p + NameSize + enc_keylen + hmac_keylen - 1)
                     \o Fill(HmacKeySize - hmac_keylen, 0)]]

\* mutant: a pair that cannot be read ends the loop, and the keys read before
\* it are handed over
RECURSIVE parse_ticket_keys_lenient(_, _, _)
parse_ticket_keys_lenient(v, p, keys) ==
  LET end == Len(v) + 1
      done == IF keys = <<>> /\ p # end
              THEN [event |-> "not_found", keys |-> <<>>]
              ELSE [event |-> "get_success", keys |-> keys]
  IN IF p = end \/ end - p < 2 THEN done
     ELSE LET len == get_uint16(v, p)
              q == p + 2
          IN IF len # expectedlen \/ q + len > end THEN done
             ELSE parse_ticket_keys_lenient(
                    v, q + NameSize + enc_keylen + hmac_keylen,
                    Append(keys, parse_ticket_key(v, q)))

\* lines 309-344: the loop over the (len, key) pairs
RECURSIVE parse_ticket_keys(_, _, _)
parse_ticket_keys(v, p, keys) ==
  LET end == Len(v) + 1
  IN IF p = end THEN [event |-> "get_success", keys |-> keys]
     ELSE IF end - p < 2 THEN [event |-> "not_found", keys |-> <<>>]
     ELSE LET len == get_uint16(v, p)
              q == p + 2
          IN IF len # expectedlen THEN [event |-> "not_found", keys |-> <<>>]
             ELSE IF q + len > end THEN [event |-> "not_found", keys |-> <<>>]
             ELSE parse_ticket_keys(v, q + NameSize + enc_keylen + hmac_keylen,
                                    Append(keys, parse_ticket_key(v, q)))

\* mutant: a cipher the callback does not know is reported as not found
memcached_result_notfound(status_code, v) ==
  IF status_code = MEMCACHED_ERR_EXT_NETWORK_ERROR
  THEN [event |-> "network_error", keys |-> <<>>]
  ELSE IF status_code # MEMCACHED_ERR_NO_ERROR
  THEN [event |-> "not_found", keys |-> <<>>]
  ELSE IF Len(v) < 4 THEN [event |-> "not_found", keys |-> <<>>]
  ELSE IF get_uint32(v, 1) # 1 THEN [event |-> "not_found", keys |-> <<>>]
  ELSE IF expectedlen = 0 THEN [event |-> "not_found", keys |-> <<>>]
  ELSE parse_ticket_keys(v, 5, <<>>)

\* the callback's decision: the event it reports and the set it hands over
memcached_result(status_code, v) ==
  IF status_code = MEMCACHED_ERR_EXT_NETWORK_ERROR
  THEN [event |-> "network_error", keys |-> <<>>]
  ELSE IF status_code # MEMCACHED_ERR_NO_ERROR
  THEN [event |-> "not_found", keys |-> <<>>]
  ELSE IF Len(v) < 4 THEN [event |-> "not_found", keys |-> <<>>]
  ELSE IF get_uint32(v, 1) # 1 THEN [event |-> "not_found", keys |-> <<>>]
  ELSE IF expectedlen = 0 THEN [event |-> "none", keys |-> <<>>]
  ELSE parse_ticket_keys(v, 5, <<>>)

\* ConnectionHandler::on_tls_ticket_key_get_success: publish the set
on_tls_ticket_key_get_success(k, keys) ==
  publish_ticket_keys(k, MakeTicketKeys(keys))

\* ConnectionHandler::on_tls_ticket_key_not_found and
\* on_tls_ticket_key_network_error: the event is recorded and the set in use
\* stays
on_tls_ticket_key_not_found(k) == k
on_tls_ticket_key_network_error(k) == k

(***************************************************************************)
(* The state as ev_run is entered (worker_process_event_loop, lines        *)
(* 358-459).                                                               *)
(***************************************************************************)
SessionTimeouts == {30} \cup {60 * hr : hr \in 1..MaxSessionHours}
Ciphers == {"aes-128-cbc", "aes-256-cbc"}

\* no set_ticket_keys_to_worker is under way
NotPublishing == [at |-> "idle"]

\* ev_break has not been called, or ev_run has no callback left to invoke
NoPending == [watchers |-> {}, conns |-> 0]

NoCalls ==
  [disable_acceptor |-> 0, accept_pending_connection |-> 0,
   graceful_shutdown_worker |-> 0, reopen_log_files |-> 0,
   worker_reopen_log_files |-> 0, order |-> <<>>]

InitLifecycle ==
  /\ pc = "loop"
  /\ graceful_shutdown_ = FALSE
  /\ acceptor \in [Acceptors -> {"none", "enabled"}]
  /\ backlog = 0
  /\ num_connections = [w \in Workers |-> 0]
  /\ loop_broken = FALSE
  /\ ipc_pipe = <<>>
  /\ ipc_open = TRUE
  /\ ipc_read = <<>>
  /\ events = <<>>
  /\ calls = NoCalls
  /\ last_cb = [cb |-> "other"]
  /\ wpconf = [server_fd |-> IF acceptor["acceptor"] = "none" THEN 1 ELSE 3,
               server_fd6 |-> IF acceptor["acceptor6"] = "none" THEN -1 ELSE 4]
  /\ publishing = NotPublishing
  /\ observed = [w \in Workers |-> NullTicketKeys]
  /\ pending = NoPending

NullKeyState(n) ==
  [tk |-> NullTicketKeys, wtk |-> [w \in 1..n |-> NullTicketKeys],
   keygen |-> 0, crashed |-> FALSE]

\* upstream_no_tls: no ticket keys and no timer
InitNoKeys ==
  /\ ticket_keys = NullTicketKeys
  /\ worker_ticket_keys = [w \in Workers |-> NullTicketKeys]
  /\ keygen = 0
  /\ ticks = 0
  /\ fetch = [state |-> "off", log |-> <<>>]

\* lines 411-419: the timer is armed and renew_ticket_key_cb has run once;
\* the workers created after it start from the handler's set
InitRotatorWith(rands) ==
  \E rand \in rands :
    LET k == renew_ticket_key_cb(NullKeyState(config.num_worker), rand,
                                 "abort")
    IN /\ ticket_keys = k.tk
       /\ worker_ticket_keys = k.wtk
       /\ keygen = k.keygen
       /\ ticks = 1
       /\ fetch = [state |-> "off", log |-> <<>>]

\* RAND_bytes gave the first key, or it gave none
InitRotator ==
  \/ InitRotatorWith({1})
  \/ InitRotatorWith(RandResults \ {1})

\* lines 379-388: the first GET has been sent
InitMemcached ==
  /\ ticket_keys = NullTicketKeys
  /\ worker_ticket_keys = [w \in Workers |-> NullTicketKeys]
  /\ keygen = 0
  /\ ticks = 1
  /\ fetch = [state |-> "pending", log |-> <<>>]

(***************************************************************************)
(* The environment: the parent process and the clients.                    *)
(***************************************************************************)
\* What the parent and the clients do is looked at up to the call of
\* ev_break: the callbacks ev_run still invokes after it are those of the
\* events it had collected before.
Running == pc = "loop" /\ ~loop_broken

(***************************************************************************)
(* ev_break(EVBREAK_ALL) makes ev_run return once the callbacks of the     *)
(* iteration under way have been invoked: a watcher whose event ev_run had *)
(* collected before the call still has its callback run, once.  The timer  *)
(* of the ticket keys is "timer", the memcached connection "memcached",    *)
(* the IPC descriptor "ipc"; the acceptors go by their names, and for the  *)
(* single worker, which runs on the main loop, conns connections may have  *)
(* an event collected.  ev_io_stop (disable_acceptor) discards the event   *)
(* of the watcher it stops.                                                *)
(***************************************************************************)
ReadyWatchers(h, self) ==
  ({a \in Acceptors : h.acc[a] = "enabled" /\ h.backlog > 0}
     \cup {"ipc"}
     \cup (IF /\ config.ticket_key_source = "rotator" /\ ticks < MaxTicks
           THEN {"timer"} ELSE {})
     \cup (IF /\ config.ticket_key_source = "memcached"
              /\ fetch.state = "idle" /\ ticks < MaxTicks
           THEN {"timer"} ELSE {})
     \cup (IF /\ config.ticket_key_source = "memcached"
              /\ fetch.state = "pending"
           THEN {"memcached"} ELSE {})) \ {self}

\* ev_run invokes the callback of watcher self at this point
Invocable(self) ==
  pc = "loop" /\ (~loop_broken \/ self \in pending.watchers)

\* pending after the callback of watcher self, which leaves the handler as h
PendingAfter(h, self) ==
  IF loop_broken THEN [pending EXCEPT !.watchers = @ \ {self}]
  ELSE IF h.brk
  THEN [watchers |-> ReadyWatchers(h, self),
        conns |-> IF config.num_worker = 1 THEN h.nconn[1] ELSE 0]
  ELSE pending

ParentWrite ==
  /\ Running /\ ipc_open
  /\ Len(ipc_read) + Len(ipc_pipe) < MaxIpcBytes
  /\ \E b \in IpcBytes : ipc_pipe' = Append(ipc_pipe, b)
  /\ UNCHANGED <<auxVars, pending>>
  /\ UNCHANGED <<config, pc, graceful_shutdown_, acceptor, backlog,
                 num_connections, loop_broken, ipc_open, ipc_read, events,
                 calls, last_cb, keyVars>>

ParentClose ==
  /\ Running /\ ipc_open
  /\ ipc_open' = FALSE
  /\ UNCHANGED <<auxVars, pending>>
  /\ UNCHANGED <<config, pc, graceful_shutdown_, acceptor, backlog,
                 num_connections, loop_broken, ipc_pipe, ipc_read, events,
                 calls, last_cb, keyVars>>

TotalConnections ==
  LET RECURSIVE Sum(_)
      Sum(w) == IF w = 0 THEN 0 ELSE num_connections[w] + Sum(w - 1)
  IN Sum(config.num_worker)

\* a client connects: the kernel queues it on a listening socket, whether or
\* not the acceptor is watching the descriptor
ClientConnect ==
  /\ Running
  /\ \E a \in Acceptors : acceptor[a] # "none"
  /\ backlog + TotalConnections < MaxConn
  /\ backlog' = backlog + 1
  /\ UNCHANGED <<auxVars, pending>>
  /\ UNCHANGED <<config, pc, graceful_shutdown_, acceptor, num_connections,
                 loop_broken, ipc_pipe, ipc_open, ipc_read, events, calls,
                 last_cb, keyVars>>

\* a connection ends and its worker drops it from its count.  The single
\* worker runs on the main loop; worker threads run on their own.
ConnectionClose ==
  /\ pc = "loop"
  /\ config.num_worker = 1 => (~loop_broken \/ pending.conns > 0)
  /\ \E w \in Workers :
       /\ num_connections[w] > 0
       /\ num_connections' = [num_connections EXCEPT ![w] = @ - 1]
  /\ last_cb' = [cb |-> "other"]
  /\ pending' = IF config.num_worker = 1 /\ loop_broken
                THEN [pending EXCEPT !.conns = @ - 1] ELSE pending
  /\ UNCHANGED auxVars
  /\ UNCHANGED <<config, pc, graceful_shutdown_, acceptor, backlog,
                 loop_broken, ipc_pipe, ipc_open, ipc_read, events, calls,
                 keyVars>>

(***************************************************************************)
(* The callbacks of the main loop.                                         *)
(***************************************************************************)
\* AcceptHandler's readiness callback: accept one connection and hand it to
\* a worker
AcceptConnection ==
  /\ \E a \in Acceptors :
       /\ Invocable(a)
       /\ acceptor[a] = "enabled"
       /\ pending' = PendingAfter(Handler, a)
  /\ backlog > 0
  /\ backlog' = backlog - 1
  /\ \E w \in Workers :
       num_connections' = [num_connections EXCEPT ![w] = @ + 1]
  /\ last_cb' = [cb |-> "other"]
  /\ UNCHANGED auxVars
  /\ UNCHANGED <<config, pc, graceful_shutdown_, acceptor, loop_broken,
                 ipc_pipe, ipc_open, ipc_read, events, calls, keyVars>>

(***************************************************************************)
(* ipc_readcb (lines 131-160).  The outcome of read(): "error" is -1 with  *)
(* an errno other than EINTR (EINTR is retried inside the callback), "eof" *)
(* is 0, and n > 0 bytes otherwise.                                        *)
(***************************************************************************)
\* mutant: a closed channel is handled as a graceful shutdown request
ipc_eof_graceful(h, target) == graceful_shutdown(h, target)

ipc_eof(h, target) == ev_break(h)

\* the results of read(): -1 with an errno (EINTR, or another such as EIO),
\* 0, or a number of bytes
EINTR == [nread |-> -1, errno |-> "EINTR"]
ReadErrnos == {"EIO"}

\* mutant: the result of the first read() is taken
read_noretry(rs) == Head(rs)

\* lines 135-136: read() is called again while it returns -1 with errno
\* EINTR; rs is what the successive calls return, the value what the loop
\* ends with
RECURSIVE read_retry(_)
read_retry(rs) ==
  IF Len(rs) > 1 /\ Head(rs) = EINTR THEN read_retry(Tail(rs)) ELSE Head(rs)

\* mutant: a failed read ends the loop as a closed channel does
ipc_failed_break(h) == ev_break(h)

\* lines 137-141: the failure is logged and the callback returns
ipc_failed(h) == h

SetHandler(h) ==
  /\ graceful_shutdown_' = h.gs
  /\ acceptor' = h.acc
  /\ backlog' = h.backlog
  /\ num_connections' = h.nconn
  /\ loop_broken' = h.brk
  /\ events' = h.ev
  /\ calls' = h.calls
  /\ pending' = PendingAfter(h, "ipc")

\* what a read() that is not interrupted can return in this state
ReadResults ==
  {[nread |-> -1, errno |-> e] : e \in ReadErrnos}
    \cup (IF ipc_pipe = <<>> /\ ~ipc_open THEN {[nread |-> 0]} ELSE {})
    \cup {[nread |-> n] : n \in 1..Min(Len(ipc_pipe), IpcBufSize)}

ipc_readcb ==
  /\ Invocable("ipc")
  /\ \E eintr \in {0, MaxEintr}, final \in ReadResults :
       LET res == read_retry([i \in 1..eintr |-> EINTR] \o <<final>>)
           nread == res.nread
       IN \/ /\ nread = -1
             /\ SetHandler(ipc_failed(Handler))
             /\ last_cb' = [cb |-> "ipc_readcb", nread |-> -1,
                            errno |-> res.errno]
             /\ UNCHANGED <<ipc_pipe, ipc_open, ipc_read>>
          \/ /\ nread = 0
             /\ \E target \in [1..backlog -> Workers] :
                  SetHandler(ipc_eof(Handler, target))
             /\ last_cb' = [cb |-> "ipc_readcb", nread |-> 0]
             /\ UNCHANGED <<ipc_pipe, ipc_open, ipc_read>>
          \/ /\ nread > 0
             /\ \E target \in [1..backlog -> Workers] :
                  SetHandler(ipc_process(Handler, SubSeq(ipc_pipe, 1, nread),
                                         target))
             /\ ipc_read' = ipc_read \o SubSeq(ipc_pipe, 1, nread)
             /\ ipc_pipe' = SubSeq(ipc_pipe, nread + 1, Len(ipc_pipe))
             /\ last_cb' = [cb |-> "ipc_readcb", nread |-> nread]
             /\ UNCHANGED ipc_open
  /\ UNCHANGED auxVars
  /\ UNCHANGED <<config, pc, keyVars>>

Configs(sources) ==
  [num_worker : 1..MaxWorkers, tls_session_timeout : SessionTimeouts,
   tls_ticket_key_cipher : Ciphers, ticket_key_source : sources]

NextLifecycle ==
  \/ ParentWrite
  \/ ParentClose
  \/ ClientConnect
  \/ ConnectionClose
  \/ AcceptConnection
  \/ ipc_readcb

InitLife ==
  /\ config \in {c \in Configs({"none"}) :
                   c.tls_session_timeout = 60 /\ c.tls_ticket_key_cipher = "aes-128-cbc"}
  /\ InitLifecycle
  /\ InitNoKeys

SpecLife == InitLife /\ [][NextLifecycle]_vars

(***************************************************************************)
(* The ticket key timer callbacks.                                         *)
(***************************************************************************)
SetKeyState(k) ==
  /\ ticket_keys' = k.tk
  /\ worker_ticket_keys' = k.wtk
  /\ keygen' = k.keygen

\* the hourly timer fires renew_ticket_key_cb
renew_ticket_key_timer ==
  /\ Invocable("timer")
  /\ config.ticket_key_source = "rotator"
  /\ ticks < MaxTicks
  /\ \E rand \in RandResults, ub \in {"abort", "continue"} :
       LET k == renew_ticket_key_cb(KeyState, rand, ub)
       IN IF k.crashed
          THEN /\ pc' = "crashed"
               /\ last_cb' = [cb |-> "renew_ticket_key_cb", rand |-> rand,
                              done |-> FALSE]
               /\ UNCHANGED <<ticket_keys, worker_ticket_keys, keygen>>
          ELSE /\ SetKeyState(k)
               /\ last_cb' = [cb |-> "renew_ticket_key_cb", rand |-> rand,
                              done |-> TRUE]
               /\ pc' = pc
  /\ ticks' = ticks + 1
  /\ pending' = PendingAfter(Handler, "timer")
  /\ UNCHANGED auxVars
  /\ UNCHANGED <<config, lifeVars, fetch>>

\* memcached_get_ticket_key_cb (lines 249-354): the timer fires and the GET
\* is handed to the dispatcher
memcached_get_ticket_key_cb ==
  /\ Invocable("timer")
  /\ config.ticket_key_source = "memcached"
  /\ fetch.state = "idle"
  /\ ticks < MaxTicks
  /\ fetch' = [fetch EXCEPT !.state = "pending"]
  /\ ticks' = ticks + 1
  /\ last_cb' = [cb |-> "other"]
  /\ pending' = PendingAfter(Handler, "timer")
  /\ UNCHANGED auxVars
  /\ UNCHANGED <<config, pc, lifeVars, ticket_keys, worker_ticket_keys, keygen>>

\* payloads the cache may return
U16(n) == <<n \div 256, n % 256>>
Blob(len, seed) == [i \in 1..len |-> (seed * 16 + i) % 256]
RECURSIVE KeyBlobs(_, _)
KeyBlobs(len, k) ==
  IF k = 0 THEN <<>> ELSE KeyBlobs(len, k - 1) \o U16(len) \o Blob(len, k)
WellFormed(len, k) == <<0, 0, 0, 1>> \o KeyBlobs(len, k)
\* what may follow well-formed pairs of length len and makes the payload
\* unreadable: a lone byte, a length field alone, a pair of another length,
\* a pair cut short
BadTails(len) ==
  {<<7>>, U16(len), U16(len - 1) \o Blob(len - 1, 9),
   U16(len) \o Blob(len - 1, 9)}
Malformed(len) ==
  {<<>>, <<0, 0, 1>>, <<0, 0, 0, 2>>, <<0, 0, 0, 2>> \o KeyBlobs(len, 1)}
    \cup {WellFormed(len, j) \o t : j \in 0..(MaxBlobs - 1), t \in BadTails(len)}
FetchValues ==
  {WellFormed(len, k) : len \in {48, 80}, k \in 0..MaxBlobs}
    \cup Malformed(48) \cup Malformed(80)

\* the dispatcher delivers the response to the request's callback; the
\* handlers that record an event re-arm the timer
memcached_response ==
  /\ Invocable("memcached")
  /\ fetch.state = "pending"
  /\ \E status_code \in {MEMCACHED_ERR_NO_ERROR, MEMCACHED_ERR_EXT_NETWORK_ERROR,
                         MEMCACHED_ERR_OTHER} :
     \E value \in IF status_code = MEMCACHED_ERR_NO_ERROR THEN FetchValues
                  ELSE {<<>>} :
       LET r == memcached_result(status_code, value)
       IN /\ SetKeyState(
               IF r.event = "get_success"
               THEN on_tls_ticket_key_get_success(KeyState, r.keys)
               ELSE IF r.event = "not_found"
               THEN on_tls_ticket_key_not_found(KeyState)
               ELSE IF r.event = "network_error"
               THEN on_tls_ticket_key_network_error(KeyState)
               ELSE KeyState)
          /\ fetch' = IF r.event = "none"
                      THEN [fetch EXCEPT !.state = "dropped"]
                      ELSE [state |-> "idle", log |-> Append(fetch.log, r.event)]
          /\ last_cb' = [cb |-> "memcached_response", status_code |-> status_code,
                         value |-> value]
  /\ pending' = PendingAfter(Handler, "memcached")
  /\ UNCHANGED auxVars
  /\ UNCHANGED <<config, pc, lifeVars, ticks>>

NextKeys ==
  \/ renew_ticket_key_timer
  \/ memcached_get_ticket_key_cb
  \/ memcached_response
  \/ ParentClose
  \/ ipc_readcb

\* TLS upstream: the keys come from memcached, which does not read the
\* session timeout, or from the rotator, whose session timeout is at least
\* one hour or below it
InitKeys ==
  /\ \/ /\ config \in {c \in Configs({"memcached"}) : c.tls_session_timeout = 60}
        /\ InitMemcached
     \/ /\ config \in {c \in Configs({"rotator"}) : c.tls_session_timeout >= 60}
        /\ InitRotator
     \/ /\ config \in {c \in Configs({"rotator"}) : c.tls_session_timeout < 60}
        /\ InitRotator
  /\ InitLifecycle
  /\ acceptor = [a \in Acceptors |-> "enabled"]

SpecKeys == InitKeys /\ [][NextKeys]_vars

\* the fetcher alone, the configured cipher being AES-128-CBC, AES-256-CBC or
\* any other EVP_CIPHER ("other")
FetchCiphers == Ciphers \cup {"other"}

InitFetch ==
  /\ config \in [num_worker : 1..MaxWorkers, tls_session_timeout : {60},
                  tls_ticket_key_cipher : FetchCiphers,
                  ticket_key_source : {"memcached"}]
  /\ InitMemcached
  /\ InitLifecycle
  /\ acceptor = [a \in Acceptors |-> "enabled"]

NextFetch ==
  \/ memcached_get_ticket_key_cb
  \/ memcached_response
  \/ ParentClose
  \/ ipc_readcb

SpecFetch == InitFetch /\ [][NextFetch]_vars

(***************************************************************************)
(* Publication with the workers at work.  renew_ticket_key_cb runs on the  *)
(* main loop; set_ticket_keys_to_worker stores the new reference into one  *)
(* worker after the other, and between two stores the worker threads go on *)
(* with their handshakes.  The single worker runs on the main loop itself. *)
(***************************************************************************)
\* renew_ticket_key_cb up to and including set_ticket_keys (line 243)
renew_ticket_key_publish ==
  /\ Invocable("timer")
  /\ config.ticket_key_source = "rotator"
  /\ publishing.at = "idle"
  /\ ticks < MaxTicks
  /\ \E rand \in RandResults, ub \in {"abort", "continue"} :
       LET k == renew_ticket_key_cb(KeyState, rand, ub)
       IN /\ last_cb' = [cb |-> "renew_ticket_key_cb", rand |-> rand,
                         done |-> ~k.crashed]
          /\ IF k.crashed
             THEN /\ pc' = "crashed"
                  /\ UNCHANGED <<ticket_keys, keygen, publishing>>
             ELSE /\ pc' = pc
                  /\ ticket_keys' = k.tk
                  /\ keygen' = k.keygen
                  /\ publishing' = [at |-> "workers", next |-> 1,
                                    old |-> ticket_keys]
  /\ ticks' = ticks + 1
  /\ pending' = PendingAfter(Handler, "timer")
  /\ UNCHANGED <<config, lifeVars, worker_ticket_keys, fetch, wpconf, observed>>

\* set_ticket_keys_to_worker (line 244): the store into the next worker
set_ticket_keys_to_worker ==
  /\ pc = "loop"
  /\ publishing.at = "workers"
  /\ worker_ticket_keys'
       = [worker_ticket_keys EXCEPT ![publishing.next] = ticket_keys]
  /\ publishing' = IF publishing.next = config.num_worker THEN NotPublishing
                   ELSE [publishing EXCEPT !.next = @ + 1]
  /\ UNCHANGED <<config, pc, lifeVars, last_cb, ticket_keys, keygen, ticks,
                 fetch, wpconf, observed, pending>>

\* Worker::get_ticket_keys: the reference is loaded in one piece
get_ticket_keys(w) == worker_ticket_keys[w]

\* a worker begins a TLS handshake with the set it holds
handshake ==
  /\ pc = "loop"
  /\ config.num_worker = 1 => publishing.at = "idle"
  /\ \E w \in Workers :
       /\ observed' = [observed EXCEPT ![w] = get_ticket_keys(w)]
       /\ last_cb' = [cb |-> "handshake", worker |-> w]
  /\ UNCHANGED <<config, pc, lifeVars, keyVars, wpconf, publishing, pending>>

NextPublish ==
  \/ renew_ticket_key_publish
  \/ set_ticket_keys_to_worker
  \/ handshake

InitPublish ==
  /\ \/ /\ config \in {c \in Configs({"rotator"}) : c.tls_session_timeout >= 60}
        /\ InitRotator
     \/ /\ config \in {c \in Configs({"rotator"}) : c.tls_session_timeout < 60}
        /\ InitRotator
  /\ InitLifecycle
  /\ acceptor = [a \in Acceptors |-> "enabled"]

SpecPublish == InitPublish /\ [][NextPublish]_vars

(***************************************************************************)
(* worker_process_event_loop from its entry to ev_run (lines 358-459), a   *)
(* step at a time.  pc is the position reached and calls.order the calls   *)
(* made so far.                                                            *)
(***************************************************************************)
\* server_fd and server_fd6 as the parent passes them: -1 where it has no
\* socket of the family, 1 the value line 372 tests for, else a socket
ServerFds == {-1, 1, 3}
ServerFds6 == {-1, 4}
WpConfs == [server_fd : ServerFds, server_fd6 : ServerFds6]

\* get_config() as the start-up reads it; tls_ticket_key_files is the number
\* of files named, uid the user to run as (0: none)
StartConfigs ==
  [num_worker : 1..MaxWorkers, tls_session_timeout : SessionTimeouts,
   tls_ticket_key_cipher : Ciphers, ticket_key_source : {"none"},
   upstream_no_tls : BOOLEAN, tls_ticket_key_memcached_host : BOOLEAN,
   tls_ticket_key_files : 0..MaxKeyFiles, uid : {0, 1000}]

\* the parent passes an IPv4 socket, or it passes none
InitStartup ==
  /\ \/ wpconf \in {wp \in WpConfs : wp.server_fd \notin {-1, 1}}
     \/ wpconf \in {wp \in WpConfs : wp.server_fd \in {-1, 1}}
  /\ config \in StartConfigs
  /\ pc = "start"
  /\ graceful_shutdown_ = FALSE
  /\ acceptor = [a \in Acceptors |-> "none"]
  /\ backlog = 0
  /\ num_connections = [w \in Workers |-> 0]
  /\ loop_broken = FALSE
  /\ ipc_pipe = <<>>
  /\ ipc_open = TRUE
  /\ ipc_read = <<>>
  /\ events = <<>>
  /\ calls = NoCalls
  /\ last_cb = [cb |-> "other"]
  /\ ticket_keys = NullTicketKeys
  /\ worker_ticket_keys = <<>>
  /\ keygen = 0
  /\ ticks = 0
  /\ fetch = [state |-> "off", log |-> <<>>]
  /\ publishing = NotPublishing
  /\ observed = [w \in Workers |-> NullTicketKeys]
  /\ pending = NoPending

\* the calls fs are made in this step, in order
Calling(fs) == calls' = [calls EXCEPT !.order = @ \o fs]

\* mutant: the privileges are dropped first
StartupNext_dropfirst(at) ==
  CASE at = "start" -> "drop_privileges"
    [] at = "drop_privileges" -> "acceptors"
    [] at = "acceptors" -> "ticket_keys"
    [] at = "ticket_keys" -> "workers"
    [] at = "workers" -> "ipc"
    [] at = "ipc" -> "ev_run"
    [] at = "ev_run" -> "loop"

\* the order of the statements of worker_process_event_loop: where it goes
\* on from a position it does not return or exit at
StartupNext(at) ==
  CASE at = "start" -> "acceptors"
    [] at = "acceptors" -> "ticket_keys"
    [] at = "ticket_keys" -> "workers"
    [] at = "workers" -> "drop_privileges"
    [] at = "drop_privileges" -> "ipc"
    [] at = "ipc" -> "ev_run"
    [] at = "ev_run" -> "loop"

\* lines 359-362
start_reopen_log_files ==
  /\ pc = "start"
  /\ \E ok \in BOOLEAN : pc' = IF ok THEN StartupNext(pc) ELSE "returned"
  /\ calls' = Bump(calls, "reopen_log_files")
  /\ UNCHANGED <<config, graceful_shutdown_, acceptor, backlog,
                 num_connections, loop_broken, ipc_pipe, ipc_open, ipc_read,
                 events, last_cb, keyVars, auxVars, pending>>

\* lines 368-375: the acceptors constructed
set_acceptors(wp) ==
  [a \in Acceptors |->
     IF a = "acceptor6"
     THEN IF wp.server_fd6 # -1 THEN "enabled" ELSE "none"
     ELSE IF wp.server_fd # 1 THEN "enabled" ELSE "none"]

start_acceptors ==
  /\ pc = "acceptors"
  /\ acceptor' = set_acceptors(wpconf)
  /\ Calling((IF acceptor'["acceptor6"] # "none" THEN <<"set_acceptor6">>
              ELSE <<>>)
             \o (IF acceptor'["acceptor"] # "none" THEN <<"set_acceptor">>
                 ELSE <<>>))
  /\ pc' = StartupNext(pc)
  /\ UNCHANGED <<config, graceful_shutdown_, backlog, num_connections,
                 loop_broken, ipc_pipe, ipc_open, ipc_read, events, last_cb,
                 keyVars, auxVars, pending>>

\* read_tls_ticket_key_file: one key for each file, in the order of the files
FileKeys(n) ==
  [i \in 1..n |->
     [cipher |-> config.tls_ticket_key_cipher, hmac_keylen |-> hmac_keylen,
      data |-> [name |-> Fill(NameSize, 100 + i),
                enc_key |-> Fill(EncKeySize, 100 + i),
                hmac_key |-> Fill(HmacKeySize, 100 + i)]]]

\* mutant: the files are looked at before the memcached host
ticket_key_source_filesfirst(readable) ==
  IF config.upstream_no_tls THEN "none"
  ELSE IF config.tls_ticket_key_files # 0 /\ readable THEN "files"
  ELSE IF config.tls_ticket_key_memcached_host THEN "memcached"
  ELSE "rotator"

\* lines 378-411: where the ticket keys come from; readable: the files, if
\* any are named, give a set (read_tls_ticket_key_file returns one)
ticket_key_source(readable) ==
  IF config.upstream_no_tls THEN "none"
  ELSE IF config.tls_ticket_key_memcached_host THEN "memcached"
  ELSE IF config.tls_ticket_key_files # 0 /\ readable THEN "files"
  ELSE "rotator"

\* lines 377-421
start_ticket_keys ==
  /\ pc = "ticket_keys"
  /\ \E readable \in BOOLEAN, rand \in RandResults :
       LET src == ticket_key_source(readable)
           reading == IF ~config.upstream_no_tls
                         /\ ~config.tls_ticket_key_memcached_host
                         /\ config.tls_ticket_key_files # 0
                      THEN <<"read_tls_ticket_key_file">> ELSE <<>>
           k == renew_ticket_key_cb(KeyState, rand, "abort")
       IN /\ config' = [config EXCEPT !.ticket_key_source = src]
          /\ CASE src = "none" ->
                   /\ Calling(<<>>)
                   /\ UNCHANGED keyVars
               [] src = "memcached" ->
                   /\ Calling(<<"set_tls_ticket_key_memcached_dispatcher",
                                "memcached_get_ticket_key_cb">>)
                   /\ fetch' = [fetch EXCEPT !.state = "pending"]
                   /\ ticks' = 1
                   /\ UNCHANGED <<ticket_keys, worker_ticket_keys, keygen>>
               [] src = "files" ->
                   /\ Calling(reading \o <<"set_ticket_keys">>)
                   /\ ticket_keys'
                        = MakeTicketKeys(FileKeys(config.tls_ticket_key_files))
                   /\ UNCHANGED <<worker_ticket_keys, keygen, ticks, fetch>>
               [] src = "rotator" ->
                   /\ Calling(reading \o <<"ev_timer_again",
                                           "renew_ticket_key_cb">>)
                   /\ SetKeyState(k)
                   /\ ticks' = 1
                   /\ UNCHANGED fetch
          /\ last_cb' = [cb |-> "start_ticket_keys", readable |-> readable]
  /\ pc' = StartupNext(pc)
  /\ UNCHANGED <<graceful_shutdown_, acceptor, backlog, num_connections,
                 loop_broken, ipc_pipe, ipc_open, ipc_read, events, auxVars, pending>>

\* lines 423-442: the control signals are ignored and the workers created,
\* each with the handler's ticket keys
start_workers ==
  /\ pc = "workers"
  /\ Calling(<<"sigaction",
               IF config.num_worker = 1 THEN "create_single_worker"
               ELSE "create_worker_thread">>)
  /\ \E rv \in {0, -1} :
       IF rv # 0
       THEN /\ pc' = "returned"
            /\ UNCHANGED worker_ticket_keys
       ELSE /\ pc' = StartupNext(pc)
            /\ worker_ticket_keys' = [w \in Workers |-> ticket_keys]
  /\ UNCHANGED <<config, graceful_shutdown_, acceptor, backlog,
                 num_connections, loop_broken, ipc_pipe, ipc_open, ipc_read,
                 events, last_cb, ticket_keys, keygen, ticks, fetch, auxVars, pending>>

\* drop_privileges (lines 60-83): the system calls made, and whether the
\* process goes on.  root: getuid() == 0; failing: the call that fails, if
\* any ("setuid0": setuid(0) succeeds)
PrivilegeCalls == <<"initgroups", "setgid", "setuid", "setuid0">>

drop_privileges(root, failing) ==
  IF root /\ config.uid # 0
  THEN LET n == CHOOSE i \in 1..4 :
                  \/ PrivilegeCalls[i] = failing
                  \/ i = 4 /\ failing = "none"
       IN [calls |-> SubSeq(PrivilegeCalls, 1, n), exited |-> failing # "none"]
  ELSE [calls |-> <<>>, exited |-> FALSE]

\* line 444
start_drop_privileges ==
  /\ pc = "drop_privileges"
  /\ \E root \in BOOLEAN,
        failing \in {"none", "initgroups", "setgid", "setuid", "setuid0"} :
       LET r == drop_privileges(root, failing)
       IN /\ Calling(<<"drop_privileges">> \o r.calls)
          /\ pc' = IF r.exited THEN "exited" ELSE StartupNext(pc)
  /\ UNCHANGED <<config, graceful_shutdown_, acceptor, backlog,
                 num_connections, loop_broken, ipc_pipe, ipc_open, ipc_read,
                 events, last_cb, keyVars, auxVars, pending>>

\* lines 446-453: the IPC reader is started, and the OCSP update unless
\* there is no TLS or no_ocsp is set
start_ipc ==
  /\ pc = "ipc"
  /\ \E no_ocsp \in BOOLEAN :
       Calling(<<"ev_io_start">>
               \o (IF ~config.upstream_no_tls /\ ~no_ocsp
                   THEN <<"proceed_next_cert_ocsp">> ELSE <<>>))
  /\ pc' = StartupNext(pc)
  /\ UNCHANGED <<config, graceful_shutdown_, acceptor, backlog,
                 num_connections, loop_broken, ipc_pipe, ipc_open, ipc_read,
                 events, last_cb, keyVars, auxVars, pending>>

\* line 459
start_ev_run ==
  /\ pc = "ev_run"
  /\ Calling(<<"ev_run">>)
  /\ pc' = StartupNext(pc)
  /\ UNCHANGED <<config, graceful_shutdown_, acceptor, backlog,
                 num_connections, loop_broken, ipc_pipe, ipc_open, ipc_read,
                 events, last_cb, keyVars, auxVars, pending>>

NextStartup ==
  \/ start_reopen_log_files
  \/ start_acceptors
  \/ start_ticket_keys
  \/ start_workers
  \/ start_drop_privileges
  \/ start_ipc
  \/ start_ev_run

SpecStartup == InitStartup /\ [][NextStartup]_vars

(***************************************************************************)
(* Properties.                                                             *)
(***************************************************************************)
\* a step of the rotation timer in which generate_ticket_key was reached and
\* RAND_bytes returned rand
RotationTick(rand) ==
  /\ config.ticket_key_source = "rotator"
  /\ ticks' = ticks + 1
  /\ last_cb'.cb = "renew_ticket_key_cb"
  /\ last_cb'.rand = rand

\* such a step in which the generator gave no key
RotationTickFailed == \E rand \in RandResults \ {1} : RotationTick(rand)

\* the key of the serial-th draw that RAND_bytes has made
GeneratedKey(serial) == generate_ticket_key(1, serial).key

ClampedHours == IF max_tickets < 1 THEN 1 ELSE max_tickets

\* C1: a rotation tick that starts from an existing set old and generates its
\* key publishes a set new with |new| = min(H, |old| + 1), H the session
\* timeout in whole hours and at least 1, new[0] the key just generated and
\* new[i] = old[i-1] behind it; from no set and with H = 3 the ticks give
\* the sizes 1, 2, 3, 3.
C1_RotationShifts ==
  [][/\ (RotationTick(1) /\ ticket_keys.present) =>
          /\ ticket_keys'.present
          /\ Len(ticket_keys'.keys) = Min(ClampedHours, Len(ticket_keys.keys) + 1)
          /\ keygen' = keygen + 1
          /\ ticket_keys'.keys[1] = GeneratedKey(keygen')
          /\ \A i \in 2..Len(ticket_keys'.keys) :
               ticket_keys'.keys[i] = ticket_keys.keys[i - 1]
     /\ (RotationTick(1) /\ max_tickets = 3 /\ keygen' = ticks') =>
          Len(ticket_keys'.keys) = Min(3, ticks')]_vars

\* C2: every ticket key set held by the connection handler or by a worker has
\* at least one key, whatever the session timeout and the fetched payload.
C2_PublishedSetNonEmpty ==
  /\ ticket_keys.present => Len(ticket_keys.keys) >= 1
  /\ \A w \in Workers :
       worker_ticket_keys[w].present => Len(worker_ticket_keys[w].keys) >= 1

RECURSIVE RecognizedOpcodes(_)
RecognizedOpcodes(bytes) ==
  IF bytes = <<>> THEN <<>>
  ELSE (IF Head(bytes) = SHRPX_IPC_GRACEFUL_SHUTDOWN THEN <<"graceful_shutdown">>
        ELSE IF Head(bytes) = SHRPX_IPC_REOPEN_LOG THEN <<"reopen_log">>
        ELSE <<>>) \o RecognizedOpcodes(Tail(bytes))

\* C3: the lifecycle functions invoked so far are, in order, the recognized
\* opcodes among the bytes read so far; other bytes invoke nothing.
C3_EventsFollowOpcodes == events = RecognizedOpcodes(ipc_read)

\* two reads, an unrecognized byte between two commands
C3_Witness ==
  /\ Len(ipc_read) = 3
  /\ ipc_read[2] = 0
  /\ events = <<"reopen_log", "graceful_shutdown">>
  /\ last_cb = [cb |-> "ipc_readcb", nread |-> 1]

\* C4: once graceful shutdown has begun no acceptor is enabled, whatever
\* is read or runs afterwards.
C4_NoAcceptorAfterGraceful ==
  graceful_shutdown_ => \A a \in Acceptors : acceptor[a] # "enabled"

\* draining, a later command has been processed and a client waits in the
\* backlog of a disabled acceptor
C4_Witness ==
  /\ graceful_shutdown_ /\ ~loop_broken
  /\ \E a \in Acceptors : acceptor[a] = "disabled"
  /\ Len(events) >= 2 /\ events[1] = "graceful_shutdown"
  /\ backlog > 0

\* C5: the step that begins graceful shutdown breaks the loop exactly when it
\* is not the case that there is one worker and it has connections.
C5_BreakUnlessSingleBusy ==
  [][(~graceful_shutdown_ /\ graceful_shutdown_') =>
       (loop_broken' <=> ~(config.num_worker = 1 /\ num_connections'[1] > 0))]_vars

\* one worker with a connection: shutdown has begun and the loop runs on
C5_Witness ==
  /\ config.num_worker = 1
  /\ num_connections[1] > 0
  /\ graceful_shutdown_ /\ ~loop_broken
  /\ last_cb.cb = "ipc_readcb"
  /\ calls.graceful_shutdown_worker = 1

\* the read of this step returned 0
IpcClosedRead ==
  /\ last_cb' = [cb |-> "ipc_readcb", nread |-> 0]
  /\ last_cb # last_cb'

\* C7: a read that returns 0 breaks the loop in that step, from Running or
\* Draining, and does nothing else: no acceptor is disabled, no backlog is
\* drained, no worker is told to drain, no log is reopened.
C7_IpcClosedBreaksOnly ==
  [][IpcClosedRead =>
       /\ loop_broken'
       /\ UNCHANGED <<graceful_shutdown_, acceptor, backlog, num_connections,
                      events, calls>>]_vars

\* the channel was closed while one worker was draining a connection, with
\* another client still in the backlog
C7_Witness ==
  /\ last_cb = [cb |-> "ipc_readcb", nread |-> 0]
  /\ loop_broken /\ graceful_shutdown_
  /\ config.num_worker = 1 /\ num_connections[1] > 0
  /\ backlog > 0

\* C8: the shutdown actions are performed at most once, and a read made
\* after shutdown has begun changes neither the lifecycle state nor the loop.
C8_GracefulIdempotent ==
  [][/\ calls'.disable_acceptor <= 1
     /\ calls'.accept_pending_connection <= 1
     /\ calls'.graceful_shutdown_worker <= 1
     /\ (graceful_shutdown_ /\ ipc_read' # ipc_read) =>
          /\ UNCHANGED <<graceful_shutdown_, acceptor, backlog, num_connections,
                         loop_broken>>
          /\ calls'.disable_acceptor = calls.disable_acceptor
          /\ calls'.accept_pending_connection = calls.accept_pending_connection
          /\ calls'.graceful_shutdown_worker = calls.graceful_shutdown_worker]_vars

\* the command has been received three times, twice in one read, and the
\* worker still drains
C8_Witness ==
  /\ events = <<"graceful_shutdown", "graceful_shutdown", "graceful_shutdown">>
  /\ last_cb = [cb |-> "ipc_readcb", nread |-> 2]
  /\ ~loop_broken
  /\ calls.disable_acceptor = 1

\* C9 as stated: after a tick whose key generation fails each worker holds
\* the set it held before the tick.
C9_WorkersKeepPreviousSet ==
  [][RotationTickFailed => worker_ticket_keys' = worker_ticket_keys]_vars

\* C9 as amended: a tick in which generate_ticket_key reports the failure
\* (RAND_bytes returned 0) returns normally, so a later tick can retry, and
\* leaves every worker with the empty reference.
C9_FailureClearsWorkers ==
  [][(RotationTick(0) /\ last_cb'.done) =>
       /\ pc' = "loop"
       /\ \A w \in Workers : worker_ticket_keys'[w] = NullTicketKeys]_vars

\* a set of two keys had been published when generation failed
C9_Witness ==
  /\ last_cb.cb = "renew_ticket_key_cb" /\ last_cb.rand = 0 /\ last_cb.done
  /\ keygen = 2 /\ ticks = 3 /\ max_tickets >= 2
  /\ \A w \in Workers : ~worker_ticket_keys[w].present

\* C10: a tick whose key generation fails publishes nothing: the handler's
\* set and every worker's set become the empty reference and no key of the
\* set under construction is seen; the next successful tick publishes exactly
\* one key, the one it generates.
C10_FailurePublishesNothing ==
  [][/\ (RotationTickFailed /\ last_cb'.done) =>
          /\ ticket_keys' = NullTicketKeys
          /\ \A w \in Workers : worker_ticket_keys'[w] = NullTicketKeys
          /\ keygen' = keygen
     /\ (RotationTick(1) /\ ~ticket_keys.present) =>
          /\ keygen' = keygen + 1
          /\ ticket_keys' = MakeTicketKeys(<<GeneratedKey(keygen')>>)
          /\ \A w \in Workers : worker_ticket_keys'[w] = ticket_keys']_vars

\* a step in which the response to a GET is delivered to the callback
FetchResponse(status_code) ==
  /\ fetch.state = "pending" /\ fetch'.state # "pending"
  /\ last_cb'.cb = "memcached_response"
  /\ last_cb'.status_code = status_code

\* the payloads that are not a version and whole pairs of the expected length
InvalidPayloads ==
  FetchValues \ {WellFormed(expectedlen, k) : k \in 0..MaxBlobs}

\* C11: a response with success status whose payload is structurally invalid
\* (short header, wrong version, lone trailing byte, wrong len, pair cut
\* short) publishes nothing, leaves the handler's and the workers' sets as
\* they were and records exactly one not-found event, also when well-formed
\* pairs come first.
C11_InvalidPayloadNotFound ==
  [][(FetchResponse(MEMCACHED_ERR_NO_ERROR) /\ last_cb'.value \in InvalidPayloads) =>
       /\ UNCHANGED <<ticket_keys, worker_ticket_keys>>
       /\ fetch'.log = Append(fetch.log, "not_found")]_vars

\* a set of two keys is in use when a payload of one good pair and a lone
\* byte arrives
C11_Witness ==
  /\ config.tls_ticket_key_cipher = "aes-128-cbc"
  /\ last_cb.cb = "memcached_response"
  /\ last_cb.value = WellFormed(48, 1) \o <<7>>
  /\ fetch.log = <<"get_success", "not_found">>
  /\ ticket_keys.present /\ Len(ticket_keys.keys) = MaxBlobs

\* EVP_CIPHER_key_length of the two ciphers
EVP_CIPHER_key_length(cipher) == IF cipher = "aes-128-cbc" THEN 16 ELSE 32

\* the payload form of a key: len, name, encryption key, hmac key
encode_ticket_key(key) ==
  U16(NameSize + EVP_CIPHER_key_length(key.cipher) + key.hmac_keylen)
    \o key.data.name
    \o SubSeq(key.data.enc_key, 1, EVP_CIPHER_key_length(key.cipher))
    \o SubSeq(key.data.hmac_key, 1, key.hmac_keylen)

RECURSIVE encode_ticket_keys(_)
encode_ticket_keys(keys) ==
  IF keys = <<>> THEN <<>>
  ELSE encode_ticket_key(Head(keys)) \o encode_ticket_keys(Tail(keys))

\* position in a payload of pairs of length len of the first byte of the
\* i-th key
KeyAt(len, i) == 4 + (i - 1) * (2 + len) + 2 + 1

\* C12: a well-formed version 1 payload of k pairs of the cipher's length
\* (48 = 16 + 16 + 16 for AES-128-CBC, 80 = 16 + 32 + 32 for AES-256-CBC)
\* records get-success and publishes exactly k keys in payload order, each
\* with the name, encryption key and hmac key bytes of its pair; encoding the
\* published set gives the payload back.
C12_WellFormedRoundTrip ==
  [][\A k \in 0..MaxBlobs :
       (/\ FetchResponse(MEMCACHED_ERR_NO_ERROR)
        /\ expectedlen \in {48, 80}
        /\ last_cb'.value = WellFormed(expectedlen, k)) =>
         LET v == last_cb'.value
             keys == ticket_keys'.keys
             elen == (expectedlen - 16) \div 2
         IN /\ fetch'.log = Append(fetch.log, "get_success")
            /\ ticket_keys'.present
            /\ \A w \in Workers : worker_ticket_keys'[w] = ticket_keys'
            /\ Len(keys) = k
            /\ \A i \in 1..k :
                 LET b == KeyAt(expectedlen, i)
                 IN /\ keys[i].data.name = SubSeq(v, b, b + 15)
                    /\ SubSeq(keys[i].data.enc_key, 1, elen)
                         = SubSeq(v, b + 16, b + 15 + elen)
                    /\ SubSeq(keys[i].data.hmac_key, 1, elen)
                         = SubSeq(v, b + 16 + elen, b + 15 + 2 * elen)
            /\ <<0, 0, 0, 1>> \o encode_ticket_keys(keys) = v]_vars

\* two pairs under AES-256-CBC have been published
C12_Witness ==
  /\ config.tls_ticket_key_cipher = "aes-256-cbc"
  /\ last_cb.cb = "memcached_response"
  /\ last_cb.value = WellFormed(80, 2)
  /\ fetch.log # <<>> /\ fetch.log[Len(fetch.log)] = "get_success"
  /\ Len(ticket_keys.keys) = 2
  /\ ticket_keys.keys[2].data.hmac_key = SubSeq(Blob(80, 2), 49, 80)

\* C16 as stated: with a cipher that is neither AES-128-CBC nor AES-256-CBC
\* every response with success status is dropped: the sets stay as they were
\* and no event is recorded.
C16_UnknownCipherDropsAll ==
  [][(FetchResponse(MEMCACHED_ERR_NO_ERROR)
        /\ config.tls_ticket_key_cipher \notin Ciphers) =>
       /\ UNCHANGED <<ticket_keys, worker_ticket_keys>>
       /\ fetch'.log = fetch.log]_vars

\* C16 as amended: with such a cipher a response with success status whose
\* payload has at least 4 bytes and version 1 is dropped, the sets staying
\* as they were and no event being recorded; a payload shorter than 4 bytes
\* or of another version records not-found and leaves the sets as they were.
C16_UnknownCipherDropsVersioned ==
  [][(FetchResponse(MEMCACHED_ERR_NO_ERROR)
        /\ config.tls_ticket_key_cipher \notin Ciphers) =>
       /\ UNCHANGED <<ticket_keys, worker_ticket_keys>>
       /\ LET v == last_cb'.value
          IN IF Len(v) >= 4 /\ get_uint32(v, 1) = 1
             THEN fetch' = [fetch EXCEPT !.state = "dropped"]
             ELSE fetch' = [state |-> "idle",
                            log |-> Append(fetch.log, "not_found")]]_vars

\* a payload of version 2 was reported as not found, the next one, a
\* well-formed pair, was dropped
C16_Witness ==
  /\ config.tls_ticket_key_cipher = "other"
  /\ last_cb.cb = "memcached_response"
  /\ last_cb.value = WellFormed(48, 1)
  /\ fetch = [state |-> "dropped", log |-> <<"not_found">>]
  /\ ~ticket_keys.present

\* the read of this step failed
IpcFailedRead ==
  /\ last_cb'.cb = "ipc_readcb" /\ last_cb'.nread = -1
  /\ last_cb # last_cb'

\* C17: a failed read of the IPC channel is no lifecycle transition.  No
\* callback ends on EINTR: the read is made again in the same callback.  A
\* read that fails otherwise changes nothing: no shutdown begins, the loop is
\* not broken, no lifecycle function is invoked, the bytes in the channel
\* stay there and the callback stays armed, so that bytes read later are
\* processed as ever.
C17_FailedReadNoTransition ==
  [][/\ (last_cb'.cb = "ipc_readcb" /\ last_cb'.nread = -1) =>
          last_cb'.errno # "EINTR"
     /\ IpcFailedRead =>
          /\ UNCHANGED <<pc, lifeVars>>
          /\ pc' = "loop"
          /\ ~loop_broken => ~loop_broken'
     /\ ipc_read' # ipc_read =>
          events' = events \o RecognizedOpcodes(
                      SubSeq(ipc_read', Len(ipc_read) + 1, Len(ipc_read')))]_vars

\* a read has failed with a command processed before it and another waiting
\* in the channel
C17_Witness ==
  /\ last_cb = [cb |-> "ipc_readcb", nread |-> -1, errno |-> "EIO"]
  /\ events = <<"reopen_log">>
  /\ ipc_pipe = <<SHRPX_IPC_GRACEFUL_SHUTDOWN>>
  /\ ~graceful_shutdown_ /\ ~loop_broken

\* the bytes taken by the read of this step
BytesRead == SubSeq(ipc_read', Len(ipc_read) + 1, Len(ipc_read'))

\* the calls this step made on the handler, in order
CallsMade == SubSeq(calls'.order, Len(calls.order) + 1, Len(calls'.order))

RECURSIVE ReopenCalls(_)
ReopenCalls(bytes) ==
  IF bytes = <<>> THEN <<>>
  ELSE (IF Head(bytes) # SHRPX_IPC_REOPEN_LOG THEN <<>>
        ELSE IF config.num_worker > 1
        THEN <<"reopen_log_files", "worker_reopen_log_files">>
        ELSE <<"reopen_log_files">>)
       \o ReopenCalls(Tail(bytes))

IsReopenCall(f) == f \in {"reopen_log_files", "worker_reopen_log_files"}

\* C19: every byte of a read is processed, also behind a byte that broke the
\* loop: each REOPEN_LOG of the read reopens the logs of the process, and
\* with more than one worker tells the workers to reopen theirs, wherever in
\* the read the GRACEFUL_SHUTDOWN that breaks the loop stands.
C19_BytesAfterBreakProcessed ==
  [][ipc_read' # ipc_read =>
       /\ SelectSeq(CallsMade, IsReopenCall) = ReopenCalls(BytesRead)
       /\ events' = events \o RecognizedOpcodes(BytesRead)
       /\ \A i \in 1..Len(BytesRead) :
            (/\ BytesRead[i] = SHRPX_IPC_GRACEFUL_SHUTDOWN
             /\ i < Len(BytesRead)
             /\ BytesRead[Len(BytesRead)] = SHRPX_IPC_REOPEN_LOG) =>
              calls'.order[Len(calls'.order)]
                = IF config.num_worker > 1 THEN "worker_reopen_log_files"
                  ELSE "reopen_log_files"]_vars

\* one read of two bytes: the shutdown broke the loop of two workers, the
\* logs were reopened after it
C19_Witness ==
  /\ config.num_worker = 2
  /\ ipc_read = <<SHRPX_IPC_GRACEFUL_SHUTDOWN, SHRPX_IPC_REOPEN_LOG>>
  /\ last_cb = [cb |-> "ipc_readcb", nread |-> 2]
  /\ loop_broken
  /\ calls.order = <<"set_graceful_shutdown", "disable_acceptor",
                     "accept_pending_connection", "graceful_shutdown_worker",
                     "reopen_log_files", "worker_reopen_log_files">>

\* the calls of the first graceful_shutdown, in the order the code makes them
ShutdownCalls ==
  <<"set_graceful_shutdown", "disable_acceptor", "accept_pending_connection",
    "graceful_shutdown_worker">>
    \o (IF config.num_worker = 1 THEN <<"get_num_connections">> ELSE <<>>)

IsShutdownCall(f) == ~IsReopenCall(f)

\* C20: the step that begins graceful shutdown sets the flag, disables the
\* acceptors, drains the backlog, tells the workers to drain and only then
\* reads the connection count; so with one worker the connections taken from
\* the backlog are counted, and the loop is not broken in that step when the
\* backlog held one.
C20_DrainBeforeCount ==
  [][(~graceful_shutdown_ /\ graceful_shutdown_') =>
       /\ SelectSeq(CallsMade, IsShutdownCall) = ShutdownCalls
       /\ backlog' = 0
       /\ config.num_worker = 1 =>
            /\ num_connections'[1] = num_connections[1] + backlog
            /\ backlog > 0 => ~loop_broken']_vars

\* one worker without a connection took on the whole backlog and runs on
C20_Witness ==
  /\ config.num_worker = 1
  /\ graceful_shutdown_ /\ ~loop_broken
  /\ num_connections[1] = MaxConn /\ backlog = 0
  /\ calls.order = ShutdownCalls
  /\ last_cb = [cb |-> "ipc_readcb", nread |-> 1]
  /\ calls.accept_pending_connection = 1

\* position of the first call of f among the calls made, 0 if there is none
Pos(f) ==
  IF \E i \in 1..Len(calls.order) : calls.order[i] = f
  THEN CHOOSE i \in 1..Len(calls.order) :
         /\ calls.order[i] = f
         /\ \A j \in 1..(i - 1) : calls.order[j] # f
  ELSE 0

Count(f) == Cardinality({i \in 1..Len(calls.order) : calls.order[i] = f})

\* the calls that set up acceptors, ticket keys and workers
SetupCalls ==
  {"set_acceptor6", "set_acceptor", "set_tls_ticket_key_memcached_dispatcher",
   "memcached_get_ticket_key_cb", "read_tls_ticket_key_file", "set_ticket_keys",
   "ev_timer_again", "renew_ticket_key_cb", "sigaction", "create_single_worker",
   "create_worker_thread"}

WorkersCreated ==
  Pos("create_single_worker") + Pos("create_worker_thread") > 0

\* C13: drop_privileges is called at most once, and once in every run that
\* gets past the creation of the workers; every acceptor, the ticket keys
\* read or generated at start-up (or the first GET) and the workers come
\* before it, the start of the IPC reader and ev_run come after it; a run in
\* which the creation of the workers fails returns with neither.
C13_PrivilegeDropOrder ==
  LET drop == Pos("drop_privileges")
  IN /\ Count("drop_privileges") <= 1
     /\ pc \in {"ipc", "ev_run", "loop", "exited"} => drop > 0
     /\ drop > 0 =>
          /\ WorkersCreated
          /\ \A i \in 1..Len(calls.order) :
               calls.order[i] \in SetupCalls => i < drop
          /\ \A a \in Acceptors : acceptor[a] # "none" => Pos("set_" \o a) > 0
          /\ ticket_keys.present =>
               Pos("set_ticket_keys") + Pos("renew_ticket_key_cb") > 0
          /\ fetch.state = "pending" => Pos("memcached_get_ticket_key_cb") > 0
     /\ \A f \in {"ev_io_start", "ev_run"} :
          Pos(f) > 0 => (0 < drop /\ drop < Pos(f))
     /\ pc = "loop" =>
          Pos("ev_io_start") > 0 /\ Pos("ev_io_start") < Pos("ev_run")
     /\ pc = "returned" => (drop = 0 /\ Pos("ev_io_start") = 0)

\* the loop is entered by two workers with both acceptors, keys read from
\* files and the user changed
C13_Witness ==
  /\ pc = "loop"
  /\ config.num_worker = 2
  /\ \A a \in Acceptors : acceptor[a] = "enabled"
  /\ config.ticket_key_source = "files" /\ ticket_keys.present
  /\ Pos("setuid0") = Pos("drop_privileges") + 4
  /\ Pos("ev_io_start") = Pos("setuid0") + 1

\* the sources of ticket keys the start-up has put to work
RotatorActive ==
  \/ Pos("ev_timer_again") > 0 \/ Pos("renew_ticket_key_cb") > 0
  \/ keygen > 0 \/ config.ticket_key_source = "rotator"
FetcherActive ==
  \/ Pos("memcached_get_ticket_key_cb") > 0
  \/ fetch.state # "off" \/ config.ticket_key_source = "memcached"
FilesLoaded ==
  Pos("set_ticket_keys") > 0 \/ config.ticket_key_source = "files"

\* the ticket key set-up of lines 377-421 has been run through
PastTicketKeys ==
  \/ pc \in {"workers", "drop_privileges", "ipc", "ev_run", "loop", "exited"}
  \/ pc = "returned" /\ Pos("sigaction") > 0

\* C15 as stated: at most one source is active; with a memcached host only
\* the fetcher; with ticket key files named the set is read from them once
\* and the rotator is neither armed nor run; the rotator only otherwise.
C15_OneSourceFilesBypassRotator ==
  /\ Cardinality({b \in {<<1, RotatorActive>>, <<2, FetcherActive>>,
                          <<3, FilesLoaded>>} : b[2]}) <= 1
  /\ config.tls_ticket_key_memcached_host => (~RotatorActive /\ ~FilesLoaded)
  /\ (config.tls_ticket_key_files # 0 /\ ~config.tls_ticket_key_memcached_host)
       => ~RotatorActive
  /\ (PastTicketKeys /\ ~config.upstream_no_tls) =>
       /\ config.tls_ticket_key_memcached_host => FetcherActive
       /\ (config.tls_ticket_key_files # 0
              /\ ~config.tls_ticket_key_memcached_host) =>
            (FilesLoaded /\ Count("read_tls_ticket_key_file") = 1)

\* C15 as amended: at most one source is active; with a memcached host only
\* the fetcher; with ticket key files named and read into a set, the set is
\* loaded once and the rotator is neither armed nor run; the rotator runs
\* otherwise, also when files are named and give no set.
C15_OneSourceFilesOrFallback ==
  /\ Cardinality({b \in {<<1, RotatorActive>>, <<2, FetcherActive>>,
                          <<3, FilesLoaded>>} : b[2]}) <= 1
  /\ config.tls_ticket_key_memcached_host => (~RotatorActive /\ ~FilesLoaded)
  /\ (PastTicketKeys /\ ~config.upstream_no_tls) =>
       /\ config.tls_ticket_key_memcached_host => FetcherActive
       /\ (config.tls_ticket_key_files # 0
              /\ ~config.tls_ticket_key_memcached_host) =>
            /\ Count("read_tls_ticket_key_file") = 1
            /\ IF last_cb.readable
               THEN /\ FilesLoaded /\ ~RotatorActive
                    /\ Count("set_ticket_keys") = 1
                    /\ ticket_keys
                         = MakeTicketKeys(FileKeys(config.tls_ticket_key_files))
               ELSE RotatorActive /\ ~FilesLoaded
       /\ (config.tls_ticket_key_files = 0
              /\ ~config.tls_ticket_key_memcached_host) => RotatorActive
  /\ config.upstream_no_tls =>
       (~RotatorActive /\ ~FetcherActive /\ ~FilesLoaded)

\* two files were read into the set the workers start with; no timer runs
C15_Witness ==
  /\ pc = "loop"
  /\ config.tls_ticket_key_files = 2 /\ config.ticket_key_source = "files"
  /\ Len(ticket_keys.keys) = 2
  /\ \A w \in Workers : worker_ticket_keys[w] = ticket_keys
  /\ ticks = 0 /\ keygen = 0

\* C18: once the acceptors are set up, there is an acceptor for a family
\* exactly when its descriptor is a listening socket: none for server_fd6 =
\* -1, none for server_fd = -1 or 1.
C18_AcceptorOnlyForPresentFd ==
  (pc = "ticket_keys" \/ PastTicketKeys) =>
    /\ acceptor["acceptor6"] # "none" <=> wpconf.server_fd6 # -1
    /\ acceptor["acceptor"] # "none" <=> wpconf.server_fd \notin {-1, 1}

\* a set as renew_ticket_key_cb completes it: no set, or the key generated
\* last in front and the keys generated before it behind, none missing
WholeSet(s, generated) ==
  s.present =>
    \E top \in 0..generated :
      /\ Len(s.keys) <= top
      /\ \A i \in 1..Len(s.keys) : s.keys[i] = GeneratedKey(top - i + 1)

\* a worker does a handshake in this step
HandshakeStep(w) ==
  /\ last_cb' = [cb |-> "handshake", worker |-> w]
  /\ ticks' = ticks /\ publishing' = publishing

\* C14: the handler and the workers only ever hold sets that are complete
\* (old keys copied, position 0 generated); while a set is being handed to
\* the workers each of them holds the whole set in use before or the whole
\* new one, and so does each handshake; once it has been handed to all, every
\* worker holds the new set and its next handshake works with it.
C14_WholeSetsOnly ==
  [][/\ WholeSet(ticket_keys', keygen')
     /\ \A w \in Workers :
          /\ WholeSet(worker_ticket_keys'[w], keygen')
          /\ WholeSet(observed'[w], keygen')
          /\ publishing'.at = "workers" =>
               worker_ticket_keys'[w]
                 = IF w < publishing'.next THEN ticket_keys'
                   ELSE publishing'.old
          /\ (publishing'.at = "idle" /\ pc' = "loop") =>
               worker_ticket_keys'[w] = ticket_keys'
          /\ HandshakeStep(w) =>
               /\ observed'[w] = ticket_keys
                    \/ (publishing.at = "workers" /\ observed'[w] = publishing.old)
               /\ publishing.at = "idle" => observed'[w] = ticket_keys]_vars

====
